---- MODULE Spec2Model ----
(***************************************************************************)
(* Stage-1 prompt firewall (stage1_filter.py): text normalisation          *)
(* (preprocess_text), rule loading and compilation (load_rules,            *)
(* Stage1Filter.__init__) and the whitelist / blacklist / default          *)
(* classification (Stage1Filter.filter_text).                              *)
(*                                                                         *)
(* A Python str is a sequence of code points.  The model keeps one code    *)
(* point per Unicode class the code distinguishes:                         *)
(*   "a"   U+0061  Ll, lower-case letter                                   *)
(*   "A"   U+0041  Lu, upper-case letter, lower() gives "a"                *)
(*   " "   U+0020  Zs, white space                                         *)
(*   "zw"  U+200B  Cf (zero width space), not white space                  *)
(*   "]"   U+005D  Pe, right square bracket                                *)
(*   "ls"  U+2028  Zl (line separator), white space, not Cf/Zs/Cc          *)
(*   "FA"  U+FF21  Lu, full-width A, NFKC gives "A"                        *)
(*   "("   U+0028  Ps, only used in rule patterns (an unclosed group)      *)
(***************************************************************************)
EXTENDS Integers, Sequences, FiniteSets, TLC

\* ------------------------------------------------------------------ bounds
\* longest input string of the normalisation specification
MaxLen == 4
\* longest prompt classified by an engine
MaxText == 3
\* most rules (whitelist and blacklist together) in a rule source
MaxRules == 2

\* ------------------------------------------------------------ code points
Chars == {"a", "A", " ", "zw", "]", "ls", "FA"}

\* code points of the prompts given to an engine: those its rule patterns
\* and their obfuscations are made of
PromptChars == {"a", "A", " ", "zw"}

RECURSIVE StringsUpTo(_, _)
StringsUpTo(alphabet, n) ==
  IF n = 0 THEN {<<>>}
  ELSE LET shorter == StringsUpTo(alphabet, n - 1)
       IN  shorter \cup {Append(s, c) : s \in {t \in shorter : Len(t) = n - 1}, c \in alphabet}

\* Unicode general category of a code point
Category(c) ==
  CASE c = "a"  -> "Ll"
    [] c = "A"  -> "Lu"
    [] c = "FA" -> "Lu"
    [] c = " "  -> "Zs"
    [] c = "zw" -> "Cf"
    [] c = "]"  -> "Pe"
    [] c = "("  -> "Ps"
    [] c = "ls" -> "Zl"
    [] OTHER    -> "Lo"

\* \s of the regex module and str.isspace(): the White_Space code points
IsSpace(c) == c \in {" ", "ls"}

\* unicodedata.normalize('NFKC', .) on one code point
NFKC_char(c) == IF c = "FA" THEN <<"A">> ELSE <<c>>

RECURSIVE NFKC(_)
NFKC(s) == IF s = <<>> THEN <<>> ELSE NFKC_char(Head(s)) \o NFKC(Tail(s))

\* str.lower() on one code point
lower_char(c) == IF c = "A" THEN "a" ELSE c

lower(s) == [i \in 1..Len(s) |-> lower_char(s[i])]

\* The character set of the pattern on line 37.  The regex module compiles
\* with VERSION0 unless (?V1) is given; there "[" and "&&" inside a set are
\* literals, so the set is  [\p{Cf}\p{Zs}\p{Cc}&&[^\S\n\t]  and ends at the
\* first "]": Cf, Zs, Cc, "&", "[", "^", every non-white-space code point,
\* newline and tab.
InSet37(c) ==
  \/ Category(c) \in {"Cf", "Zs", "Cc"}
  \/ c \in {"&", "[", "^", "\n", "\t"}
  \/ ~IsSpace(c)

RECURSIVE SkipBrackets(_)
SkipBrackets(s) ==
  IF s # <<>> /\ Head(s) = "]" THEN SkipBrackets(Tail(s)) ELSE s

\* re.sub(r'[\p{Cf}\p{Zs}\p{Cc}&&[^\S\n\t]]+', ' ', text): what follows the
\* set in the pattern is the literal "]" under "+", so a match is one code
\* point of the set followed by a greedy run of "]"; matches are found left
\* to right and each is replaced by one space.
RECURSIVE sub_format_chars(_)
sub_format_chars(s) ==
  IF s = <<>> THEN <<>>
  ELSE IF Len(s) >= 2 /\ InSet37(s[1]) /\ s[2] = "]"
       THEN <<" ">> \o sub_format_chars(SkipBrackets(Tail(Tail(s))))
       ELSE <<Head(s)>> \o sub_format_chars(Tail(s))

RECURSIVE SkipSpaces(_)
SkipSpaces(s) ==
  IF s # <<>> /\ IsSpace(Head(s)) THEN SkipSpaces(Tail(s)) ELSE s

\* re.sub(r'\s+', ' ', text)
RECURSIVE sub_whitespace(_)
sub_whitespace(s) ==
  IF s = <<>> THEN <<>>
  ELSE IF IsSpace(Head(s))
       THEN <<" ">> \o sub_whitespace(SkipSpaces(Tail(s)))
       ELSE <<Head(s)>> \o sub_whitespace(Tail(s))

RECURSIVE rstrip(_)
rstrip(s) ==
  IF s # <<>> /\ IsSpace(s[Len(s)]) THEN rstrip(SubSeq(s, 1, Len(s) - 1)) ELSE s

\* str.strip()
strip(s) == rstrip(SkipSpaces(s))

preprocess_text(text) ==
  IF text = <<>> THEN <<>>
  ELSE strip(sub_whitespace(sub_format_chars(lower(NFKC(text)))))

\* ------------------------------------------------------------ Python values
None == [type |-> "NoneType", v |-> <<>>]

Str(s) == [type |-> "str", v |-> s]

List(s) == [type |-> "list", v |-> s]

\* marks a key a YAML mapping does not hold (never a value of the program)
Absent == [type |-> "absent", v |-> <<>>]

\* dict.get(key, default)
get(d, key, default) == IF key \in DOMAIN d THEN d[key] ELSE default

\* str.upper() on one code point
upper_char(c) ==
  CASE c = "b" -> "B" [] c = "l" -> "L" [] c = "o" -> "O" [] c = "c" -> "C"
    [] c = "k" -> "K" [] c = "r" -> "R" [] c = "e" -> "E" [] c = "v" -> "V"
    [] c = "i" -> "I" [] c = "w" -> "W" [] c = "s" -> "S" [] c = "a" -> "A"
    [] c = "t" -> "T"
    [] OTHER -> c

upper(s) == [i \in 1..Len(s) |-> upper_char(s[i])]

BLOCK == <<"B", "L", "O", "C", "K">>

\* ------------------------------------------------------------------ rules
\* Rule records of a rule source: YAML mappings with the keys id, pattern,
\* message and (blacklist) action, any of which may be missing.  A pattern
\* is a regular expression over literal code points; "(" opens a group that
\* is never closed.
WhitelistRecords ==
  { [id |-> "W1", pattern |-> <<"a">>, message |-> "safe question"],
    [id |-> "W2", pattern |-> <<>>],
    [id |-> "W3", pattern |-> <<"(", "a">>, message |-> "broken"],
    [message |-> "no pattern"] }

BlacklistRecords ==
  { [id |-> "B1", pattern |-> <<"a", " ", "a">>, action |-> Str(BLOCK), message |-> "injection"],
    [id |-> "B2", pattern |-> <<"a">>, action |-> Str(<<"b", "l", "o", "c", "k">>)],
    [id |-> "B3", pattern |-> <<"zw">>, action |-> Str(<<"r", "e", "v", "i", "e", "w">>), message |-> "review"],
    [pattern |-> <<>>, message |-> "catch all"],
    [id |-> "B5", pattern |-> <<"a">>, action |-> None, message |-> "null action"],
    [id |-> "B6", pattern |-> <<"(">>, action |-> Str(BLOCK)] }

\* what a YAML document holds under the key whitelist or blacklist
ListValues(records) ==
  {Absent, None} \cup {List(s) : s \in StringsUpTo(records, MaxRules)}

\* yaml.safe_load of a mapping
Mapping(w, b) ==
  [type |-> "dict",
   v |-> [k \in (IF w = Absent THEN {} ELSE {"whitelist"})
                  \cup (IF b = Absent THEN {} ELSE {"blacklist"})
            |-> IF k = "whitelist" THEN w ELSE b]]

\* rule sources: no file, an empty document (safe_load gives None), a mapping
RuleSources ==
  {[file |-> "missing", config |-> None], [file |-> "present", config |-> None]}
  \cup {[file |-> "present", config |-> Mapping(p[1], p[2])] :
          p \in {q \in ListValues(WhitelistRecords) \X ListValues(BlacklistRecords) :
                   Len(q[1].v) + Len(q[2].v) <= MaxRules}}

load_rules(src) ==
  LET rules == [whitelist |-> List(<<>>), blacklist |-> List(<<>>)]
  IN  IF src.file = "missing" THEN rules                       \* FileNotFoundError
      ELSE IF src.config.type # "dict" THEN rules              \* config.get: AttributeError
      ELSE [whitelist |-> get(src.config.v, "whitelist", List(<<>>)),
            blacklist |-> get(src.config.v, "blacklist", List(<<>>))]

\* re.compile: regex.error for a group that is not closed, else the program
regex_compile(pattern) ==
  IF \E i \in 1..Len(pattern) : pattern[i] = "("
  THEN [error |-> "missing )", prog |-> <<>>]
  ELSE [error |-> "", prog |-> pattern]

\* compiled.search(s): the program matches at some offset of s
search(compiled, s) ==
  \E i \in 0..(Len(s) - Len(compiled.prog)) :
     SubSeq(s, i + 1, i + Len(compiled.prog)) = compiled.prog

\* one pass of a compile loop of __init__ over the rules left, acc being
\* the active list so far
RECURSIVE compile_loop(_, _)
compile_loop(rules, acc) ==
  IF rules = <<>> THEN [exc |-> "", rules |-> acc]
  ELSE LET rule == Head(rules)
       IN  IF "pattern" \notin DOMAIN rule
           THEN [exc |-> "KeyError", rules |-> acc]
           ELSE LET c == regex_compile(rule.pattern)
                IN  IF c.error # ""
                    THEN compile_loop(Tail(rules), acc)
                    ELSE compile_loop(Tail(rules),
                                      Append(acc, rule @@ ("compiled_pattern" :> c)))

\* a compile loop whose try encloses the loop: the first bad pattern ends it
RECURSIVE compile_until_error(_, _)
compile_until_error(rules, acc) ==
  IF rules = <<>> THEN [exc |-> "", rules |-> acc]
  ELSE LET rule == Head(rules)
       IN  IF "pattern" \notin DOMAIN rule
           THEN [exc |-> "KeyError", rules |-> acc]
           ELSE LET c == regex_compile(rule.pattern)
                IN  IF c.error # ""
                    THEN [exc |-> "", rules |-> acc]
                    ELSE compile_until_error(Tail(rules),
                                             Append(acc, rule @@ ("compiled_pattern" :> c)))

compile_rules_until_error(value) ==
  IF value.type # "list" THEN [exc |-> "TypeError", rules |-> <<>>]
  ELSE compile_until_error(value.v, <<>>)

\* for rule in loaded_rules[...]: iterating None raises TypeError
compile_rules(value) ==
  IF value.type # "list" THEN [exc |-> "TypeError", rules |-> <<>>]
  ELSE compile_loop(value.v, <<>>)

\* -------------------------------------------------------------- filter_text
Return(decision, rule_id, message) ==
  [kind |-> "return", decision |-> decision, rule_id |-> rule_id, message |-> message]

Raise(exc) ==
  [kind |-> "raise", decision |-> exc, rule_id |-> "", message |-> ""]

NoResult == [kind |-> "none", decision |-> "", rule_id |-> "", message |-> ""]

\* index of the first rule of the list whose pattern is found in s, 0 if none
RECURSIVE first_match_from(_, _, _)
first_match_from(rules, s, i) ==
  IF i > Len(rules) THEN 0
  ELSE IF search(rules[i].compiled_pattern, s) THEN i
  ELSE first_match_from(rules, s, i + 1)

\* a scan without the early return: the last matching rule wins
RECURSIVE last_match_from(_, _, _)
last_match_from(rules, s, i) ==
  IF i < 1 THEN 0
  ELSE IF search(rules[i].compiled_pattern, s) THEN i
  ELSE last_match_from(rules, s, i - 1)

last_match(rules, s) == last_match_from(rules, s, Len(rules))

first_match(rules, s) == first_match_from(rules, s, 1)

whitelist_decision(rule) ==
  Return("ALLOW", get(rule, "id", "N/A"), get(rule, "message", "Whitelist matched"))

blacklist_decision(rule) ==
  LET value == get(rule, "action", Str(<<"e", "s", "c", "a", "l", "a", "t", "e">>))
  IN  IF value.type # "str" THEN Raise("AttributeError")      \* None.upper()
      ELSE IF upper(value.v) = BLOCK
           THEN Return("BLOCK", get(rule, "id", "N/A"), get(rule, "message", "No message"))
           ELSE Return("ESCALATE", get(rule, "id", "N/A"), get(rule, "message", "No message"))

\* a fail-open default
default_allow == Return("ALLOW", "N/A_DEFAULT", "Default allow")

default_decision == Return("ESCALATE", "N/A_DEFAULT", "Default escalate (Zero-Trust)")

\* filter_text without the empty check of lines 72-73
filter_text_unguarded(whitelist, blacklist, t) ==
  LET processed_text == preprocess_text(t)
      w == first_match(whitelist, processed_text)
      b == first_match(blacklist, processed_text)
  IN  IF w # 0 THEN whitelist_decision(whitelist[w])
      ELSE IF b # 0 THEN blacklist_decision(blacklist[b])
      ELSE default_decision

filter_text(whitelist, blacklist, t) ==
  IF t = <<>> THEN Return("ALLOW", "N/A", "Empty input")
  ELSE LET processed_text == preprocess_text(t)
           w == first_match(whitelist, processed_text)
           b == first_match(blacklist, processed_text)
       IN  IF w # 0 THEN whitelist_decision(whitelist[w])
           ELSE IF b # 0 THEN blacklist_decision(blacklist[b])
           ELSE default_decision

\* a scan that moves the rule it matched to the front of its list
move_to_front(whitelist, t) ==
  LET w == first_match(whitelist, preprocess_text(t))
  IN  IF t = <<>> \/ w = 0 THEN whitelist
      ELSE <<whitelist[w]>> \o SubSeq(whitelist, 1, w - 1)
                            \o SubSeq(whitelist, w + 1, Len(whitelist))

\* the rule lists of the engine after a filter_text call: the loops only read
whitelist_after(whitelist, t) == whitelist

blacklist_after(blacklist, t) == blacklist

\* ------------------------------------------------------------------ state
VARIABLES
  source,            \* the rule source the engine is built from
  phase,             \* "start", "ready", "returned", "failed" (__init__ raised)
  whitelist_rules,   \* self.whitelist_rules
  blacklist_rules,   \* self.blacklist_rules
  constructed,       \* the two lists as __init__ left them
  result,            \* what the last filter_text call returned or raised
  served,            \* the engine has answered an earlier filter_text call
  text,              \* argument of the running call (preprocess_text or filter_text)
  out1,              \* preprocess_text(text)
  out2,              \* preprocess_text(out1)
  npc                \* position of the normalisation run

vars == <<source, phase, whitelist_rules, blacklist_rules, constructed, result,
          served, text, out1, out2, npc>>

engine == <<source, phase, whitelist_rules, blacklist_rules, constructed, result, served>>

norm == <<out1, out2, npc>>

NoText == <<"none">>

\* ------------------------------------------------------- engine life cycle
Init ==
  /\ source \in RuleSources
  /\ phase = "start"
  /\ whitelist_rules = <<>>
  /\ blacklist_rules = <<>>
  /\ constructed = <<>>
  /\ result = NoResult
  /\ served = FALSE
  /\ text = NoText
  /\ out1 = NoText
  /\ out2 = NoText
  /\ npc = "off"

\* Stage1Filter.__init__
Stage1Filter_init ==
  /\ phase = "start"
  /\ LET loaded_rules == load_rules(source)
         w == compile_rules(loaded_rules.whitelist)
         b == compile_rules(loaded_rules.blacklist)
     IN  IF w.exc # "" \/ b.exc # ""
         THEN /\ phase' = "failed"
              /\ result' = Raise(IF w.exc # "" THEN w.exc ELSE b.exc)
              /\ UNCHANGED <<whitelist_rules, blacklist_rules, constructed>>
         ELSE /\ phase' = "ready"
              /\ whitelist_rules' = w.rules
              /\ blacklist_rules' = b.rules
              /\ constructed' = <<w.rules, b.rules>>
              /\ UNCHANGED result
  /\ UNCHANGED <<source, served, text, norm>>

\* a filter_text call
Classify ==
  /\ phase = "ready"
  /\ \E t \in StringsUpTo(PromptChars, MaxText) :
       /\ text' = t
       /\ result' = filter_text(whitelist_rules, blacklist_rules, t)
       /\ whitelist_rules' = whitelist_after(whitelist_rules, t)
       /\ blacklist_rules' = blacklist_after(blacklist_rules, t)
  /\ phase' = "returned"
  /\ UNCHANGED <<source, constructed, served, norm>>

\* the caller is done with the decision and goes on to its next prompt
NextPrompt ==
  /\ phase = "returned"
  /\ phase' = "ready"
  /\ text' = NoText
  /\ result' = NoResult
  /\ served' = TRUE
  /\ UNCHANGED <<source, whitelist_rules, blacklist_rules, constructed, norm>>

Next == Stage1Filter_init \/ Classify \/ NextPrompt

Spec == Init /\ [][Next]_vars

\* ------------------------------------------- normalisation specification
InitNorm ==
  /\ text \in StringsUpTo(Chars, MaxLen)
  /\ out1 = NoText
  /\ out2 = NoText
  /\ npc = "input"
  /\ source = [file |-> "missing", config |-> None]
  /\ phase = "off"
  /\ whitelist_rules = <<>>
  /\ blacklist_rules = <<>>
  /\ constructed = <<>>
  /\ result = NoResult
  /\ served = FALSE

Normalize ==
  /\ npc = "input"
  /\ out1' = preprocess_text(text)
  /\ npc' = "once"
  /\ UNCHANGED <<text, out2, engine>>

NormalizeAgain ==
  /\ npc = "once"
  /\ out2' = preprocess_text(out1)
  /\ npc' = "twice"
  /\ UNCHANGED <<text, out1, engine>>

NextNorm == Normalize \/ NormalizeAgain

SpecNorm == InitNorm /\ [][NextNorm]_vars

\* ------------------------------------------------------------------ claims
Decisions == {"ALLOW", "BLOCK", "ESCALATE"}

\* the rule's pattern is found in the normalised text
Matches(rule, t) == search(rule.compiled_pattern, preprocess_text(t))

AnyMatch(rules, t) ==
  LET p == preprocess_text(t)
  IN  \E i \in 1..Len(rules) : search(rules[i].compiled_pattern, p)

\* the earliest-listed rule of the list that matches
Earliest(rules, t) ==
  LET p == preprocess_text(t)
  IN  rules[CHOOSE i \in 1..Len(rules) :
              /\ search(rules[i].compiled_pattern, p)
              /\ \A j \in 1..(i - 1) : ~search(rules[j].compiled_pattern, p)]

IdOf(rule) == IF "id" \in DOMAIN rule THEN rule.id ELSE "N/A"

\* C1: every filter_text call on a constructed engine returns one of ALLOW,
\* BLOCK, ESCALATE and never raises, whatever the rules' id, message and
\* action hold.
C1_AlwaysDecides ==
  phase = "returned" => result.kind = "return" /\ result.decision \in Decisions

\* C2: constructing the engine never raises, whatever the rule source.
C2_ConstructionNeverFails == phase # "failed"

\* C3: filter_text of the empty string returns (ALLOW, "N/A", "Empty input")
\* for every rule set, also when a rule's pattern matches the empty text.
C3_EmptyInput ==
  (phase = "returned" /\ text = <<>>)
    => result = Return("ALLOW", "N/A", "Empty input")

C3_Witness ==
  /\ phase = "returned"
  /\ text = <<>>
  /\ \E i \in 1..Len(whitelist_rules) : search(whitelist_rules[i].compiled_pattern, <<>>)
  /\ result.rule_id = "N/A"

\* C4: for a non-empty text that some whitelist rule matches, filter_text
\* returns ALLOW with the id and message of the earliest-listed matching
\* whitelist rule, whatever the blacklist holds.
C4_WhitelistFirst ==
  (phase = "returned" /\ text # <<>> /\ AnyMatch(whitelist_rules, text))
    => LET rule == Earliest(whitelist_rules, text)
       IN  /\ result.kind = "return"
           /\ result.decision = "ALLOW"
           /\ result.rule_id = IdOf(rule)
           /\ result.message =
                (IF "message" \in DOMAIN rule THEN rule.message ELSE "Whitelist matched")

\* a text matched by a whitelist rule and by a blacklist rule whose action
\* is BLOCK
C4_Witness ==
  /\ phase = "returned"
  /\ text # <<>>
  /\ AnyMatch(whitelist_rules, text)
  /\ \E i \in 1..Len(blacklist_rules) :
       /\ Matches(blacklist_rules[i], text)
       /\ "action" \in DOMAIN blacklist_rules[i]
       /\ blacklist_rules[i].action = Str(BLOCK)
  /\ result.decision = "ALLOW"

\* C5: a non-empty text that no whitelist rule and no blacklist rule matches
\* gets (ESCALATE, "N/A_DEFAULT", "Default escalate (Zero-Trust)").
C5_DefaultEscalate ==
  (phase = "returned" /\ text # <<>>
     /\ ~AnyMatch(whitelist_rules, text) /\ ~AnyMatch(blacklist_rules, text))
    => result = Return("ESCALATE", "N/A_DEFAULT", "Default escalate (Zero-Trust)")

C5_Witness ==
  /\ phase = "returned"
  /\ text # <<>>
  /\ whitelist_rules # <<>>
  /\ blacklist_rules # <<>>
  /\ ~AnyMatch(whitelist_rules, text)
  /\ ~AnyMatch(blacklist_rules, text)
  /\ result.rule_id = "N/A_DEFAULT"

\* the action of the rule is the string BLOCK in some letter case
IsBlock(rule) ==
  /\ "action" \in DOMAIN rule
  /\ rule.action.type = "str"
  /\ Len(rule.action.v) = 5
  /\ \A i \in 1..5 : rule.action.v[i] \in {BLOCK[i], <<"b", "l", "o", "c", "k">>[i]}

\* C6: for a non-empty text that no whitelist rule matches and some
\* blacklist rule does, the earliest-listed matching blacklist rule decides:
\* BLOCK iff its action is BLOCK in any letter case, ESCALATE for every
\* other or absent action, with that rule's id and message ("N/A" and
\* "No message" when absent).
C6_BlacklistAction ==
  (phase = "returned" /\ text # <<>>
     /\ ~AnyMatch(whitelist_rules, text) /\ AnyMatch(blacklist_rules, text))
    => LET rule == Earliest(blacklist_rules, text)
       IN  result = Return(IF IsBlock(rule) THEN "BLOCK" ELSE "ESCALATE",
                           IdOf(rule),
                           IF "message" \in DOMAIN rule THEN rule.message ELSE "No message")

\* the rules of a source list whose pattern is a well-formed expression
\* (every group closed), in source order
RECURSIVE WellFormed(_)
WellFormed(records) ==
  IF records = <<>> THEN <<>>
  ELSE IF \A i \in 1..Len(Head(records).pattern) : Head(records).pattern[i] # "("
       THEN <<Head(records)>> \o WellFormed(Tail(records))
       ELSE WellFormed(Tail(records))

\* a rule of an active list without what __init__ added to it
SourceRecord(rule) == [k \in DOMAIN rule \ {"compiled_pattern"} |-> rule[k]]

SourceList(key) ==
  IF source.file = "present" /\ source.config.type = "dict" /\ key \in DOMAIN source.config.v
  THEN source.config.v[key].v
  ELSE <<>>

IsActive(active, key) ==
  /\ Len(active) = Len(WellFormed(SourceList(key)))
  /\ \A i \in 1..Len(active) : SourceRecord(active[i]) = WellFormed(SourceList(key))[i]

BadIds(key) ==
  {IdOf(SourceList(key)[i]) : i \in {j \in 1..Len(SourceList(key)) :
      \E n \in 1..Len(SourceList(key)[j].pattern) : SourceList(key)[j].pattern[n] = "("}}

\* C7: after construction each active list is the source list without the
\* rules whose pattern did not compile, in source order, and no filter_text
\* call returns a rule that was dropped.
C7_ActiveLists ==
  (phase \in {"ready", "returned"})
    => /\ IsActive(whitelist_rules, "whitelist")
       /\ IsActive(blacklist_rules, "blacklist")
       /\ result.rule_id \notin BadIds("whitelist") \cup BadIds("blacklist")

\* a bad pattern listed before a good one, and a call that the good one decided
C7_Witness ==
  /\ phase = "returned"
  /\ Len(SourceList("whitelist")) = 2
  /\ BadIds("whitelist") = {IdOf(SourceList("whitelist")[1])}
  /\ Len(whitelist_rules) = 1
  /\ result.rule_id = IdOf(SourceList("whitelist")[2])

\* the intended normal form of an obfuscated phrase: lower case, every run
\* of spaces and zero width spaces one space
RECURSIVE SkipBlanks(_)
SkipBlanks(s) ==
  IF s # <<>> /\ Head(s) \in {" ", "zw"} THEN SkipBlanks(Tail(s)) ELSE s

RECURSIVE Plain(_)
Plain(s) ==
  IF s = <<>> THEN <<>>
  ELSE IF Head(s) \in {" ", "zw"} THEN <<" ">> \o Plain(SkipBlanks(Tail(s)))
  ELSE <<lower_char(Head(s))>> \o Plain(Tail(s))

\* lower-case words separated by single spaces
IsPhrase(s) ==
  /\ s # <<>>
  /\ \A i \in 1..Len(s) : s[i] \in {"a", " "}
  /\ s[1] # " " /\ s[Len(s)] # " "
  /\ \A i \in 1..(Len(s) - 1) : ~(s[i] = " " /\ s[i + 1] = " ")
  /\ \E i \in 1..Len(s) : s[i] = " "

\* C8: for a blacklist rule that matches a lower-case phrase, every variant
\* of the phrase made by changing letter case, widening a space or putting
\* a zero width space between the words is normalised to the phrase and
\* gets the decision and rule id of the plain phrase.
C8_ObfuscationResistant ==
  (phase = "returned" /\ text # <<>>)
    => \A i \in 1..Len(blacklist_rules) :
         LET phrase == blacklist_rules[i].compiled_pattern.prog
         IN  (IsPhrase(phrase) /\ Plain(text) = phrase)
               => /\ preprocess_text(text) = preprocess_text(phrase)
                  /\ result = filter_text(whitelist_rules, blacklist_rules, phrase)

\* C9: preprocess_text(preprocess_text(x)) = preprocess_text(x) for every x.
C9_Idempotent == npc = "twice" => out2 = out1

====
